---- MODULE Spec2Model ----
(***************************************************************************)
(* State-machine model of the Notepad component                            *)
(* (src/src/components/Notepad.tsx): the in-memory note list, the active   *)
(* selection, the tab-rename editor, the debounce timer and the two        *)
(* localStorage slots, with one action per event handler.                  *)
(*                                                                         *)
(* Each handler runs to completion and React re-renders before the next    *)
(* event is delivered, so a handler always sees the state of the latest    *)
(* render; the one closure that outlives a render is the debounce timer    *)
(* callback, which keeps the activeNoteId and content of the edit that     *)
(* scheduled it.                                                           *)
(***************************************************************************)
EXTENDS Integers, Sequences, FiniteSets, TLC

\* ------------------------------------------------------------------ bounds
MaxNotes == 3          \* createNewNote is disabled at this many tabs
MaxTime  == 3          \* last reading of the clock
MaxEvents == 5         \* events handled in one run of the model
MaxRun   == 3          \* consecutive edits counted by the history variable

\* --------------------------------------------------------------- constants
STORAGE_KEY     == "notepad-notes"
LAST_ACTIVE_KEY == "notepad-last-active"
SeedId   == 1          \* id of the seed note, '1'
NullId   == 0          \* null of useState<string | null>(null)
\* Date.now() never reads 1: the clock starts after the seed id.
StartTime == SeedId + 1

\* Strings that the code inspects character by character (titles, which are
\* trimmed) are sequences of one-character strings.
Welcome  == <<"W", "e", "l", "c", "o", "m", "e">>
Untitled == <<"U", "n", "t", "i", "t", "l", "e", "d">>
EmptyTitle == << >>
WelcomeContent == "# Welcome to Smart Notepad"

\* What the user can type into the rename input and into the textarea.
TitleInputs == { << >>, <<" ">>, <<" ", "A", " ">> }
Contents    == { "", "a" }

VARIABLES
    notes,          \* useState<Note[]>
    activeNoteId,   \* useState<string | null>
    isRenamingTab,  \* useState<string | null>
    tempTitle,      \* useState('')
    saveTimeoutRef, \* the live timers; the one saveTimeoutRef.current names
                    \* is marked current
    localStorage,   \* [key -> << >> (no item) or <<value>>]
    now,            \* Date.now()
    toast,          \* the toast raised by the last step
    ev,             \* history: the handler that ran last and its arguments
    editRun,        \* history: length of the current run of editContent
    runWrites,      \* history: writes of the notes slot since the run began
    typed,          \* history: content of the most recent editContent
    events,         \* history: number of events handled so far
    lastSaved,      \* history: << >> or <<argument of the last saveNotes>>
    wrote,          \* history: the last handler called saveNotes
    again           \* history: the last handler also ran just before itself

vars == << notes, activeNoteId, isRenamingTab, tempTitle, saveTimeoutRef,
           localStorage, now, toast, ev, editRun, runWrites, typed, events,
           lastSaved, wrote, again >>

\* ----------------------------------------------------------------- helpers
Note(id, title, content, lastModified) ==
    [id |-> id, title |-> title, content |-> content,
     lastModified |-> lastModified]

Ids(ns) == { ns[i].id : i \in 1..Len(ns) }

\* Array.prototype.some(n => n.id === id)
some(ns, id) == \E i \in 1..Len(ns) : ns[i].id = id

\* Array.prototype.filter(note => note.id !== noteId)
RECURSIVE filterOut(_, _)
filterOut(ns, noteId) ==
    IF ns = << >> THEN << >>
    ELSE IF Head(ns).id # noteId
         THEN <<Head(ns)>> \o filterOut(Tail(ns), noteId)
         ELSE filterOut(Tail(ns), noteId)

\* notes.find(note => note.id === activeNoteId): << >> or <<note>>
find(ns, id) ==
    IF some(ns, id)
    THEN <<ns[CHOOSE i \in 1..Len(ns) :
               ns[i].id = id /\ \A j \in 1..(i - 1) : ns[j].id # id]>>
    ELSE << >>

\* String.prototype.trim over a sequence of characters
IsSpace(ch) == ch = " "

RECURSIVE trimStart(_)
trimStart(s) ==
    IF s # << >> /\ IsSpace(Head(s)) THEN trimStart(Tail(s)) ELSE s

RECURSIVE trimEnd(_)
trimEnd(s) ==
    IF s # << >> /\ IsSpace(s[Len(s)])
    THEN trimEnd(SubSeq(s, 1, Len(s) - 1))
    ELSE s

\* Faulty variant: the title is used untrimmed.
trim_none(s) == s

trim(s) == trimEnd(trimStart(s))

\* JSON.stringify of a Note[]: the array of the notes' member values in
\* key order id, title, content, lastModified.
stringifyNote(n) == <<n.id, n.title, n.content, n.lastModified>>

stringify(ns) == [i \in 1..Len(ns) |-> stringifyNote(ns[i])]

\* Faulty variant: lastModified is read from the wrong member.
parseNote_wrongMember(t) == Note(t[1], t[2], t[3], t[1])

\* JSON.parse(savedNotes)
parseNote(t) == Note(t[1], t[2], t[3], t[4])

parse(text) == [i \in 1..Len(text) |-> parseNote(text[i])]

\* localStorage.setItem(key, value)
setItem(store, key, value) == [store EXCEPT ![key] = <<value>>]

\* saveNotes: the list is stringified into the notes slot
saveNotes(store, ns) ==
    setItem(store, STORAGE_KEY, stringify(ns))

NoToast == [title |-> "", about |-> EmptyTitle]

\* ----------------------------------------------------------- load effect
\* The mount effect: read both slots; parse the notes or make the seed note.
LoadedNotes(store, t) ==
    IF store[STORAGE_KEY] # << >>
    THEN parse(store[STORAGE_KEY][1])
    ELSE <<Note(SeedId, Welcome, WelcomeContent, t)>>

\* Faulty variant: the seed note is stored but not selected.
LoadedActive_seedUnselected(store, ns) ==
    IF store[STORAGE_KEY] # << >>
    THEN IF store[LAST_ACTIVE_KEY] # << >>
            /\ some(ns, store[LAST_ACTIVE_KEY][1])
         THEN store[LAST_ACTIVE_KEY][1]
         ELSE IF Len(ns) > 0 THEN ns[1].id ELSE NullId
    ELSE NullId

LoadedActive(store, ns) ==
    IF store[STORAGE_KEY] # << >>
    THEN IF store[LAST_ACTIVE_KEY] # << >>
            /\ some(ns, store[LAST_ACTIVE_KEY][1])
         THEN store[LAST_ACTIVE_KEY][1]
         ELSE IF Len(ns) > 0 THEN ns[1].id ELSE NullId
    ELSE SeedId

Init ==
    /\ now = StartTime
    /\ localStorage = [k \in {STORAGE_KEY, LAST_ACTIVE_KEY} |-> << >>]
    /\ notes = LoadedNotes(localStorage, now)
    /\ activeNoteId = LoadedActive(localStorage, notes)
    /\ isRenamingTab = NullId
    /\ tempTitle = EmptyTitle
    /\ saveTimeoutRef = << >>
    /\ toast = NoToast
    /\ ev = "load"
    /\ editRun = 0
    /\ runWrites = 0
    /\ typed = ""
    /\ events = 0
    /\ lastSaved = << >>
    /\ wrote = FALSE
    /\ again = FALSE

\* The handler op runs.
Ran(op) == ev' = op /\ again' = (ev = op)

\* saveNotes(ns) is called, or the handler returns without calling it.
Saves(ns) == lastSaved' = <<ns>> /\ wrote' = TRUE

NoSave == lastSaved' = lastSaved /\ wrote' = FALSE

\* Every handler run is one event of the budget.
Handled == events < MaxEvents /\ events' = events + 1

\* The run of consecutive edits ends with any handler but the timer's.
EndRun == editRun' = 0 /\ runWrites' = 0 /\ typed' = ""

\* The page is reloaded: timers and component state die, the mount effect
\* runs again on what localStorage holds.
Reload ==
    /\ notes' = LoadedNotes(localStorage, now)
    /\ activeNoteId' = LoadedActive(localStorage, notes')
    /\ isRenamingTab' = NullId
    /\ tempTitle' = EmptyTitle
    /\ saveTimeoutRef' = << >>
    /\ toast' = NoToast
    /\ Ran("load")
    /\ EndRun
    /\ Handled
    /\ NoSave
    /\ UNCHANGED << localStorage, now >>

\* Time passes.
Tick ==
    /\ now < MaxTime
    /\ now' = now + 1
    /\ UNCHANGED << notes, activeNoteId, isRenamingTab, tempTitle,
                    saveTimeoutRef, localStorage, toast, ev, editRun,
                    runWrites, typed, events, lastSaved, wrote, again >>

\* ------------------------------------------------------------ editContent
\* prev.map(note => note.id === activeNoteId ? { ...note, content } : note)
withContent(ns, id, content) ==
    [i \in 1..Len(ns) |->
        IF ns[i].id = id THEN [ns[i] EXCEPT !.content = content] ELSE ns[i]]

\* setTimeout(callback, 500): the callback's closure holds the render's
\* activeNoteId and the content; the handle goes to saveTimeoutRef.current.
Timer(id, content, at) ==
    [id |-> id, content |-> content, at |-> at, current |-> TRUE]

\* clearTimeout(saveTimeoutRef.current): the timer the ref names, if it is
\* still live, is dropped.
clearTimeout(timers) == SelectSeq(timers, LAMBDA t : ~t.current)

\* saveTimeoutRef.current = ...: the ref names no earlier timer any more.
unnamed(timers) ==
    [k \in 1..Len(timers) |-> [timers[k] EXCEPT !.current = FALSE]]

\* Faulty variant: a live timer is kept instead of being cleared, so the
\* write carries the first content of a burst.
debouncedSave_keepFirst(content) ==
    saveTimeoutRef' =
        IF saveTimeoutRef # << >>
        THEN saveTimeoutRef
        ELSE <<Timer(activeNoteId, content, now)>>

\* Faulty variant: the live timer is not cleared before the next is set.
debouncedSave_noClear(content) ==
    saveTimeoutRef' =
        unnamed(saveTimeoutRef) \o <<Timer(activeNoteId, content, now)>>

\* debouncedSave(content): clear the live timer, start one that keeps this
\* render's activeNoteId and the content.
debouncedSave(content) ==
    saveTimeoutRef' =
        unnamed(clearTimeout(saveTimeoutRef))
            \o <<Timer(activeNoteId, content, now)>>

\* The textarea is rendered only while there is an active note.
handleContentChange(content) ==
    /\ find(notes, activeNoteId) # << >>
    /\ notes' = withContent(notes, activeNoteId, content)
    /\ debouncedSave(content)
    /\ toast' = NoToast
    /\ Ran("edit")
    /\ editRun' = IF editRun > 0 /\ runWrites = 0
                  THEN (IF editRun < MaxRun THEN editRun + 1 ELSE MaxRun)
                  ELSE 1
    /\ runWrites' = 0
    /\ typed' = content
    /\ Handled
    /\ NoSave
    /\ UNCHANGED << activeNoteId, isRenamingTab, tempTitle, localStorage, now >>

\* Faulty variant: a note that is no longer in the store is put back.
withSaved_upsert(ns, id, content, t) ==
    IF some(ns, id)
    THEN [i \in 1..Len(ns) |->
            IF ns[i].id = id
            THEN [ns[i] EXCEPT !.content = content, !.lastModified = t]
            ELSE ns[i]]
    ELSE Append(ns, Note(id, Untitled, content, t))

\* prev.map(note => note.id === activeNoteId
\*                  ? { ...note, content, lastModified: Date.now() } : note)
withSaved(ns, id, content, t) ==
    [i \in 1..Len(ns) |->
        IF ns[i].id = id
        THEN [ns[i] EXCEPT !.content = content, !.lastModified = t]
        ELSE ns[i]]

\* Faulty variant: the callback reads the selection current when it fires.
TimerFires_currentActive ==
    \E k \in 1..Len(saveTimeoutRef) :
    /\ now > saveTimeoutRef[k].at
    /\ LET timer == saveTimeoutRef[k]
           updated == withSaved(notes, activeNoteId, timer.content, now)
       IN  /\ IF timer.id # NullId
              THEN /\ notes' = updated
                   /\ localStorage' = saveNotes(localStorage, updated)
                   /\ Saves(updated)
                   /\ runWrites' = runWrites + 1
              ELSE /\ NoSave
                   /\ UNCHANGED << notes, localStorage, runWrites >>
           /\ Ran("timer")
    /\ saveTimeoutRef' =
         SubSeq(saveTimeoutRef, 1, k - 1)
             \o SubSeq(saveTimeoutRef, k + 1, Len(saveTimeoutRef))
    /\ toast' = NoToast
    /\ Handled
    /\ UNCHANGED << activeNoteId, isRenamingTab, tempTitle, now, editRun, typed >>

\* The setTimeout callback, 500 ms after the edit at the earliest.
TimerFires ==
    \E k \in 1..Len(saveTimeoutRef) :
    /\ now > saveTimeoutRef[k].at
    /\ LET timer == saveTimeoutRef[k]
           updated == withSaved(notes, timer.id, timer.content, now)
       IN  /\ IF timer.id # NullId
              THEN /\ notes' = updated
                   /\ localStorage' = saveNotes(localStorage, updated)
                   /\ Saves(updated)
                   /\ runWrites' = runWrites + 1
              ELSE /\ NoSave
                   /\ UNCHANGED << notes, localStorage, runWrites >>
           /\ Ran("timer")
    /\ saveTimeoutRef' =
         SubSeq(saveTimeoutRef, 1, k - 1)
             \o SubSeq(saveTimeoutRef, k + 1, Len(saveTimeoutRef))
    /\ toast' = NoToast
    /\ Handled
    /\ UNCHANGED << activeNoteId, isRenamingTab, tempTitle, now, editRun, typed >>

\* ----------------------------------------------------------------- create
\* Faulty variant: [newNote, ...notes]
appendNote_inFront(ns, newNote) == <<newNote>> \o ns

\* [...notes, newNote]
appendNote(ns, newNote) == Append(ns, newNote)

\* Date.now() is read twice; the second reading may be a millisecond later.
createNewNote ==
    /\ Len(notes) < MaxNotes
    /\ \E t \in {now, now + 1} :
        /\ t <= MaxTime
        /\ LET newNote == Note(now, Untitled, "", t)
               updatedNotes == appendNote(notes, newNote)
           IN  /\ notes' = updatedNotes
               /\ activeNoteId' = newNote.id
               /\ localStorage' =
                    setItem(saveNotes(localStorage, updatedNotes),
                            LAST_ACTIVE_KEY, newNote.id)
               /\ Saves(updatedNotes)
               /\ Ran("create")
        /\ now' = t
    /\ toast' = NoToast
    /\ EndRun
    /\ Handled
    /\ UNCHANGED << isRenamingTab, tempTitle, saveTimeoutRef >>

\* ------------------------------------------------------------------ close
LastNoteToast ==
    [title |-> "Cannot close last note", about |-> EmptyTitle]

\* Faulty variant: the first id is taken from notes, not from updatedNotes.
firstIdOrNull_stale(ns) == IF Len(notes) > 0 THEN notes[1].id ELSE NullId

\* updatedNotes[0]?.id || null
firstIdOrNull(ns) == IF Len(ns) > 0 THEN ns[1].id ELSE NullId

\* Faulty variant: the guard is off by one.
isLastNote_offByOne(ns) == Len(ns) = 0

\* notes.length === 1
isLastNote(ns) == Len(ns) = 1

closeNote(noteId) ==
    /\ Ran("close")
    /\ EndRun
    /\ Handled
    /\ IF isLastNote(notes)
       THEN /\ toast' = LastNoteToast
            /\ NoSave
            /\ UNCHANGED << notes, activeNoteId, localStorage >>
       ELSE LET updatedNotes == filterOut(notes, noteId)
                newActive == firstIdOrNull(updatedNotes)
            IN  /\ notes' = updatedNotes
                /\ Saves(updatedNotes)
                /\ toast' = NoToast
                /\ IF activeNoteId = noteId
                   THEN /\ activeNoteId' = newActive
                        /\ localStorage' =
                             IF newActive # NullId
                             THEN setItem(saveNotes(localStorage, updatedNotes),
                                          LAST_ACTIVE_KEY, newActive)
                             ELSE saveNotes(localStorage, updatedNotes)
                   ELSE /\ activeNoteId' = activeNoteId
                        /\ localStorage' = saveNotes(localStorage, updatedNotes)
    /\ UNCHANGED << isRenamingTab, tempTitle, saveTimeoutRef, now >>

\* The close button of a tab, or Ctrl+W on the active note.
CloseTargets == Ids(notes) \cup (IF activeNoteId # NullId THEN {activeNoteId} ELSE {})

\* ----------------------------------------------------------------- switch
\* Faulty variant: the selection is not written to localStorage.
switchToNote_notPersisted(noteId) ==
    /\ noteId \in Ids(notes)
    /\ noteId # isRenamingTab
    /\ activeNoteId' = noteId
    /\ toast' = NoToast
    /\ Ran("switch")
    /\ EndRun
    /\ Handled
    /\ NoSave
    /\ UNCHANGED << notes, isRenamingTab, tempTitle, saveTimeoutRef, now,
                    localStorage >>

\* A tab shows its button unless it is the one being renamed.
switchToNote(noteId) ==
    /\ noteId \in Ids(notes)
    /\ noteId # isRenamingTab
    /\ activeNoteId' = noteId
    /\ localStorage' = setItem(localStorage, LAST_ACTIVE_KEY, noteId)
    /\ toast' = NoToast
    /\ Ran("switch")
    /\ EndRun
    /\ Handled
    /\ NoSave
    /\ UNCHANGED << notes, isRenamingTab, tempTitle, saveTimeoutRef, now >>

\* ----------------------------------------------------------------- rename
startRename(i) ==
    /\ i \in 1..Len(notes)
    /\ notes[i].id # isRenamingTab
    /\ isRenamingTab' = notes[i].id
    /\ tempTitle' = notes[i].title
    /\ toast' = NoToast
    /\ Ran("startRename")
    /\ EndRun
    /\ Handled
    /\ NoSave
    /\ UNCHANGED << notes, activeNoteId, saveTimeoutRef, localStorage, now >>

\* The rename input exists while the note being renamed has a tab.
RenameInputShown == isRenamingTab # NullId /\ some(notes, isRenamingTab)

\* onChange of the rename input
setTempTitle(value) ==
    /\ RenameInputShown
    /\ tempTitle' = value
    /\ toast' = NoToast
    /\ Ran("typeTitle")
    /\ EndRun
    /\ Handled
    /\ NoSave
    /\ UNCHANGED << notes, activeNoteId, isRenamingTab, saveTimeoutRef,
                    localStorage, now >>

\* prev.map(note => note.id === isRenamingTab
\*            ? { ...note, title: tempTitle.trim(), lastModified: Date.now() }
\*            : note)
withTitle(ns, id, title, t) ==
    [i \in 1..Len(ns) |->
        IF ns[i].id = id
        THEN [ns[i] EXCEPT !.title = title, !.lastModified = t]
        ELSE ns[i]]

\* onBlur, or Enter, in the rename input
saveRename ==
    /\ RenameInputShown
    /\ IF isRenamingTab # NullId /\ trim(tempTitle) # EmptyTitle
       THEN LET updated == withTitle(notes, isRenamingTab, trim(tempTitle), now)
            IN  /\ notes' = updated
                /\ localStorage' = saveNotes(localStorage, updated)
                /\ Saves(updated)
       ELSE /\ NoSave
            /\ UNCHANGED << notes, localStorage >>
    /\ Ran("rename")
    /\ isRenamingTab' = NullId
    /\ tempTitle' = EmptyTitle
    /\ toast' = NoToast
    /\ EndRun
    /\ Handled
    /\ UNCHANGED << activeNoteId, saveTimeoutRef, now >>

\* Escape in the rename input
cancelRename ==
    /\ RenameInputShown
    /\ Ran("cancelRename")
    /\ isRenamingTab' = NullId
    /\ tempTitle' = EmptyTitle
    /\ toast' = NoToast
    /\ EndRun
    /\ Handled
    /\ NoSave
    /\ UNCHANGED << notes, activeNoteId, saveTimeoutRef, localStorage, now >>

\* ---------------------------------------------------------------- reorder
\* items.splice(from, 1) then items.splice(to, 0, item); indices from 1 here
removeAt(ns, from) ==
    SubSeq(ns, 1, from - 1) \o SubSeq(ns, from + 1, Len(ns))

insertAt(ns, to, item) ==
    SubSeq(ns, 1, to - 1) \o <<item>> \o SubSeq(ns, to, Len(ns))

\* Faulty variant: the two positions are exchanged instead of one moved.
splice_swap(ns, from, to) ==
    [ns EXCEPT ![from] = ns[to], ![to] = ns[from]]

splice(ns, from, to) == insertAt(removeAt(ns, from), to, ns[from])

\* Faulty variant: saveNotes(notes) instead of saveNotes(items).
handleDragEnd_savesOld(from, to) ==
    /\ from \in 1..Len(notes)
    /\ to \in 1..Len(notes)
    /\ LET items == splice(notes, from, to)
       IN  /\ notes' = items
           /\ localStorage' = saveNotes(localStorage, notes)
           /\ Saves(notes)
    /\ toast' = NoToast
    /\ Ran("reorder")
    /\ EndRun
    /\ Handled
    /\ UNCHANGED << activeNoteId, isRenamingTab, tempTitle, saveTimeoutRef,
                    now >>

handleDragEnd(from, to) ==
    /\ from \in 1..Len(notes)
    /\ to \in 1..Len(notes)
    /\ LET items == splice(notes, from, to)
       IN  /\ notes' = items
           /\ localStorage' = saveNotes(localStorage, items)
           /\ Saves(items)
    /\ toast' = NoToast
    /\ Ran("reorder")
    /\ EndRun
    /\ Handled
    /\ UNCHANGED << activeNoteId, isRenamingTab, tempTitle, saveTimeoutRef,
                    now >>

\* The tab is dropped outside the tab bar: result.destination is null.
handleDragEndNoDestination ==
    /\ notes # << >>
    /\ toast' = NoToast
    /\ Ran("dropOutside")
    /\ EndRun
    /\ Handled
    /\ NoSave
    /\ UNCHANGED << notes, activeNoteId, isRenamingTab, tempTitle,
                    saveTimeoutRef, localStorage, now >>

\* ------------------------------------------------------------- manualSave
SavedToast(title) == [title |-> "Saved", about |-> title]

\* Faulty variant: the saved copy of the active note is stamped with the
\* time of the save.
manualSave_stamps ==
    /\ saveTimeoutRef' = clearTimeout(saveTimeoutRef)
    /\ LET activeNote == find(notes, activeNoteId)
       IN  IF activeNote # << >>
           THEN LET stamped == withSaved(notes, activeNoteId,
                                         activeNote[1].content, now)
                IN  /\ localStorage' = saveNotes(localStorage, stamped)
                    /\ Saves(stamped)
                    /\ toast' = SavedToast(activeNote[1].title)
           ELSE /\ toast' = NoToast
                /\ NoSave
                /\ UNCHANGED localStorage
    /\ Ran("manualSave")
    /\ EndRun
    /\ Handled
    /\ UNCHANGED << notes, activeNoteId, isRenamingTab, tempTitle, now >>

\* Faulty variant: the pending timer is not cleared.
manualSave_noCancel ==
    /\ LET activeNote == find(notes, activeNoteId)
       IN  IF activeNote # << >>
           THEN /\ localStorage' = saveNotes(localStorage, notes)
                /\ Saves(notes)
                /\ toast' = SavedToast(activeNote[1].title)
           ELSE /\ toast' = NoToast
                /\ NoSave
                /\ UNCHANGED localStorage
    /\ Ran("manualSave")
    /\ EndRun
    /\ Handled
    /\ UNCHANGED << notes, activeNoteId, isRenamingTab, tempTitle, now,
                    saveTimeoutRef >>

manualSave ==
    /\ saveTimeoutRef' = clearTimeout(saveTimeoutRef)
    /\ LET activeNote == find(notes, activeNoteId)
       IN  IF activeNote # << >>
           THEN /\ localStorage' = saveNotes(localStorage, notes)
                /\ Saves(notes)
                /\ toast' = SavedToast(activeNote[1].title)
           ELSE /\ toast' = NoToast
                /\ NoSave
                /\ UNCHANGED localStorage
    /\ Ran("manualSave")
    /\ EndRun
    /\ Handled
    /\ UNCHANGED << notes, activeNoteId, isRenamingTab, tempTitle, now >>

Next ==
    \/ Reload
    \/ Tick
    \/ \E content \in Contents : handleContentChange(content)
    \/ TimerFires
    \/ createNewNote
    \/ \E noteId \in CloseTargets : closeNote(noteId)
    \/ \E noteId \in Ids(notes) : switchToNote(noteId)
    \/ \E i \in 1..Len(notes) : startRename(i)
    \/ \E value \in TitleInputs : setTempTitle(value)
    \/ saveRename
    \/ cancelRename
    \/ \E from, to \in 1..Len(notes) : handleDragEnd(from, to)
    \/ handleDragEndNoDestination
    \/ manualSave

Spec == Init /\ [][Next]_vars

\* =================================================================== claims
\* The step just taken is one run of the handler op.
Did(op) == events' = events + 1 /\ ev' = op

HasPersistedNotes == localStorage[STORAGE_KEY] # << >>

\* What a load would read from the notes slot.
PersistedNotes == parse(localStorage[STORAGE_KEY][1])

SameNotes(a, b) ==
    /\ Len(a) = Len(b)
    /\ \A i \in 1..Len(a) :
        /\ a[i].id = b[i].id
        /\ a[i].title = b[i].title
        /\ a[i].content = b[i].content
        /\ a[i].lastModified = b[i].lastModified

UniqueIds(ns) == \A i, j \in 1..Len(ns) : i # j => ns[i].id # ns[j].id

\* C1: after initialization and any sequence of operations the in-memory
\* Note Store holds at least one Note.
C1_AtLeastOneNote == Len(notes) >= 1

\* C2: the Active Selection is null or the id of a Note present in the
\* in-memory Note Store, in every reachable state.
C2_ActiveSelectionInStore ==
    activeNoteId = NullId \/ \E i \in 1..Len(notes) : notes[i].id = activeNoteId

\* The active note was just closed and another was selected in its place.
C2_Witness ==
    /\ ev = "close"
    /\ toast = NoToast
    /\ Len(notes) = 2
    /\ activeNoteId = notes[1].id
    /\ localStorage[LAST_ACTIVE_KEY] = <<activeNoteId>>

\* C3: close on a store of exactly one Note raises the notice and leaves the
\* note sequence, the Active Selection and both persisted slots unchanged.
C3_CloseLastRejected ==
    [][ (Did("close") /\ Len(notes) = 1) =>
            /\ toast' = LastNoteToast
            /\ notes' = notes
            /\ activeNoteId' = activeNoteId
            /\ localStorage' = localStorage ]_vars

C3_Witness ==
    /\ ev = "close"
    /\ toast = LastNoteToast
    /\ Len(notes) = 1

\* C4: close of an id shown in a store of more than one Note leaves exactly
\* one Note fewer: that Note is gone, the others keep their fields and their
\* order, and the result is what the notes slot holds.
C4_CloseRemovesExactlyOne ==
    [][ (Did("close") /\ Len(notes) > 1) =>
            /\ Len(notes') = Len(notes) - 1
            /\ \E i \in 1..Len(notes) :
                /\ notes' = removeAt(notes, i)
                /\ \A k \in 1..Len(notes') : notes'[k].id # notes[i].id
            /\ localStorage'[STORAGE_KEY] = <<stringify(notes')>> ]_vars

\* C5: three edits in a row and then the timer give exactly one write of the
\* notes slot, and it holds the third edit's content for the edited note.
C5_DebounceOneWrite ==
    editRun >= 3 =>
        \/ saveTimeoutRef # << >> /\ runWrites = 0
        \/ /\ saveTimeoutRef = << >>
           /\ runWrites = 1
           /\ HasPersistedNotes
           /\ \E i \in 1..Len(PersistedNotes) :
                PersistedNotes[i].id = activeNoteId
           /\ \A i \in 1..Len(PersistedNotes) :
                PersistedNotes[i].id = activeNoteId =>
                    PersistedNotes[i].content = typed

\* The timer has fired after a run of three edits.
C5_Witness ==
    /\ editRun >= 3
    /\ ev = "timer"
    /\ runWrites = 1
    /\ saveTimeoutRef = << >>

\* C6: with no debounced write pending and the notes slot written or loaded,
\* the slot equals the in-memory sequence; create, reorder and the timer, a
\* close that removes and a rename that renames write the sequence they leave
\* in memory in the same step.
C6_Mirror ==
    /\ [](saveTimeoutRef = << >> /\ HasPersistedNotes
            => SameNotes(PersistedNotes, notes))
    /\ [][ (\/ Did("create") \/ Did("reorder") \/ Did("timer")
            \/ (Did("close") /\ notes' # notes)
            \/ (Did("rename") /\ notes' # notes))
           => /\ localStorage'[STORAGE_KEY] # << >>
              /\ SameNotes(parse(localStorage'[STORAGE_KEY][1]), notes') ]_vars

\* A reorder that changed the order was written through.
C6_Witness ==
    /\ ev = "reorder"
    /\ saveTimeoutRef = << >>
    /\ HasPersistedNotes
    /\ Len(notes) >= 2
    /\ notes[1].id # SeedId
    /\ notes[Len(notes)].id = SeedId

\* C7 as stated: the persisted last-active identifier equals the in-memory
\* Active Selection after initialization and after every operation.
C7_LastActiveMirrorsSelection ==
    localStorage[LAST_ACTIVE_KEY] = <<activeNoteId>>

\* C7 amended: the load effect writes nothing, so the slot may be absent; a
\* present slot equals a non-null Active Selection, and create, switchActive
\* and a close that re-selects a note write the new selection in the step.
C7_LastActiveWrittenOnChange ==
    /\ [](activeNoteId # NullId /\ localStorage[LAST_ACTIVE_KEY] # << >>
            => localStorage[LAST_ACTIVE_KEY] = <<activeNoteId>>)
    /\ [][ (\/ Did("create") \/ Did("switch")
            \/ (Did("close") /\ activeNoteId' # activeNoteId
                             /\ activeNoteId' # NullId))
           => localStorage'[LAST_ACTIVE_KEY] = <<activeNoteId'>> ]_vars

\* A selection made by a click was written, then read back by a reload.
C7_Witness ==
    /\ ev = "load"
    /\ Len(notes) >= 2
    /\ activeNoteId # notes[1].id
    /\ localStorage[LAST_ACTIVE_KEY] = <<activeNoteId>>

\* C8: what a load reads from the notes slot is the sequence that was handed
\* to saveNotes, Note by Note in id, title, content and lastModified, and a
\* reload leaves exactly that sequence in memory.
C8_RoundTrip ==
    lastSaved # << >> =>
        /\ HasPersistedNotes
        /\ SameNotes(LoadedNotes(localStorage, now), lastSaved[1])
        /\ ev = "load" => SameNotes(notes, lastSaved[1])

\* A store of two Notes with an edited, saved content was reloaded.
C8_Witness ==
    /\ ev = "load"
    /\ lastSaved # << >>
    /\ Len(notes) >= 2
    /\ \E i \in 1..Len(notes) :
        notes[i].content = "a" /\ notes[i].lastModified > StartTime

\* C9: no two Notes of the in-memory store, and no two of the persisted
\* notes collection, have the same id.
C9_UniqueIds ==
    /\ UniqueIds(notes)
    /\ HasPersistedNotes => UniqueIds(PersistedNotes)

\* C10: create appends exactly one Note, titled "Untitled" with empty
\* content, selects it, and writes both persisted slots in the same step.
C10_CreateAppends ==
    [][ Did("create") =>
            /\ Len(notes') = Len(notes) + 1
            /\ SubSeq(notes', 1, Len(notes)) = notes
            /\ notes'[Len(notes')].title = Untitled
            /\ notes'[Len(notes')].content = ""
            /\ activeNoteId' = notes'[Len(notes')].id
            /\ localStorage'[STORAGE_KEY] = <<stringify(notes')>>
            /\ localStorage'[LAST_ACTIVE_KEY] = <<activeNoteId'>> ]_vars

C10_Witness ==
    /\ ev = "create"
    /\ Len(notes) = 2
    /\ notes[2].title = Untitled
    /\ activeNoteId = notes[2].id
    /\ localStorage[LAST_ACTIVE_KEY] = <<activeNoteId>>

\* Every character of s is a blank.
OnlySpaces(s) == \A k \in 1..Len(s) : s[k] = " "

\* C11: a rename whose new title is empty after trimming changes no Note
\* (titles and lastModified stay as they were) and writes nothing to the
\* persisted notes collection.
C11_BlankRenameIsNoOp ==
    [][ (Did("rename") /\ OnlySpaces(tempTitle)) =>
            /\ notes' = notes
            /\ localStorage' = localStorage
            /\ lastSaved' = lastSaved
            /\ wrote' = FALSE ]_vars

\* A rename ran and wrote nothing: the input held blanks only.
C11_Witness ==
    /\ ev = "rename"
    /\ wrote = FALSE
    /\ isRenamingTab = NullId
    /\ \E i \in 1..Len(notes) : notes[i].title = Welcome

\* C12: a manualSave that follows a manualSave with no operation between
\* them leaves both persisted slots as the first call left them and leaves
\* the in-memory store unchanged.
C12_ManualSaveIdempotent ==
    [][ (Did("manualSave") /\ ev = "manualSave") =>
            /\ localStorage' = localStorage
            /\ notes' = notes
            /\ activeNoteId' = activeNoteId ]_vars

\* manualSave ran twice in a row, later than the first and on an edited store.
C12_Witness ==
    /\ ev = "manualSave"
    /\ again
    /\ wrote
    /\ now > StartTime
    /\ \E i \in 1..Len(notes) : notes[i].content = "a"

\* C13: initialization with no persisted notes collection leaves exactly one
\* Note, titled "Welcome", and the Active Selection is its id.
C13_FreshStartSeed ==
    (ev = "load" /\ ~HasPersistedNotes) =>
        /\ Len(notes) = 1
        /\ notes[1].title = Welcome
        /\ activeNoteId = notes[1].id

\* The component was mounted again with the notes slot still absent.
C13_Witness ==
    /\ ev = "load"
    /\ events >= 2
    /\ ~HasPersistedNotes
    /\ localStorage[LAST_ACTIVE_KEY] # << >>
    /\ Len(notes) = 1

\* C14: when a handler writes the notes slot while an edit still waits for
\* its debounced write, and the edited note with the edited content is in
\* what it writes, then either a debounced write remains pending or the
\* note's lastModified, in memory and in the persisted record, is at or
\* after the time of the edit.
C14_EditStampsLastModified ==
    [][ \A k \in 1..Len(saveTimeoutRef) :
          LET edit == saveTimeoutRef[k]
              written == parse(localStorage'[STORAGE_KEY][1])
          IN  ( /\ events' = events + 1
                /\ wrote'
                /\ \E i \in 1..Len(written) :
                      /\ written[i].id = edit.id
                      /\ written[i].content = edit.content )
              => \/ saveTimeoutRef' # << >>
                 \/ /\ \A i \in 1..Len(written) :
                          written[i].id = edit.id =>
                              written[i].lastModified >= edit.at
                    /\ \A i \in 1..Len(notes') :
                          notes'[i].id = edit.id =>
                              notes'[i].lastModified >= edit.at ]_vars

\* C15: manualSave leaves no debounced write pending and leaves the notes
\* slot equal to the in-memory sequence; afterwards a timer exists only if an
\* editContent sets one, and only an existing timer fires.
C15_ManualSaveCancelsAndPersists ==
    [][ /\ Did("manualSave") =>
            /\ saveTimeoutRef' = << >>
            /\ localStorage'[STORAGE_KEY] # << >>
            /\ SameNotes(parse(localStorage'[STORAGE_KEY][1]), notes')
            /\ notes' = notes
        /\ (saveTimeoutRef = << >> /\ saveTimeoutRef' # << >>) => Did("edit")
        /\ Did("timer") => saveTimeoutRef # << >> ]_vars

\* manualSave ran on an edit whose debounced write had not fired: the content
\* is persisted, unstamped, and no timer is left.
C15_Witness ==
    /\ ev = "manualSave"
    /\ events = 2
    /\ wrote
    /\ saveTimeoutRef = << >>
    /\ HasPersistedNotes
    /\ \E i \in 1..Len(PersistedNotes) :
        /\ PersistedNotes[i].id = SeedId
        /\ PersistedNotes[i].content = "a"
        /\ PersistedNotes[i].lastModified = StartTime

\* C16: a close that removes the active Note selects the first Note of the
\* remaining sequence and writes its id to the last-active slot; a close
\* that removes another Note leaves the selection and the slot unchanged.
C16_CloseReselectsFirst ==
    [][ (Did("close") /\ Len(notes) > 1) =>
            IF \A i \in 1..Len(notes') : notes'[i].id # activeNoteId
            THEN /\ Len(notes') > 0
                 /\ activeNoteId' = notes'[1].id
                 /\ localStorage'[LAST_ACTIVE_KEY] = <<activeNoteId'>>
            ELSE /\ activeNoteId' = activeNoteId
                 /\ localStorage'[LAST_ACTIVE_KEY]
                        = localStorage[LAST_ACTIVE_KEY] ]_vars

\* C17: at most one debounced write is pending at any time; an editContent
\* leaves exactly the timer of that edit, whatever was pending before, so
\* the timer that fires is always the one of the latest edit.
C17_AtMostOnePendingWrite ==
    /\ [](Len(saveTimeoutRef) <= 1)
    /\ [][ /\ Did("edit") =>
                saveTimeoutRef' = <<Timer(activeNoteId, typed', now)>>
           /\ Did("timer") =>
                /\ Len(saveTimeoutRef) = 1
                /\ saveTimeoutRef[1].current
                /\ saveTimeoutRef' = << >> ]_vars

\* The seed note was edited, a new note took the selection, and an edit of
\* the new note replaced the seed note's pending write.
C17_Witness ==
    /\ ev = "edit"
    /\ events = 3
    /\ activeNoteId # SeedId
    /\ Len(saveTimeoutRef) = 1
    /\ saveTimeoutRef[1].id = activeNoteId
    /\ \E i \in 1..Len(notes) :
        /\ notes[i].id = SeedId
        /\ notes[i].content = "a"
        /\ notes[i].lastModified = StartTime

\* C18: an editContent sets the content of the active Note and nothing else
\* in that step: that Note's other fields, every other Note, the Active
\* Selection and both persisted slots are unchanged and nothing is written.
C18_EditTouchesOnlyContent ==
    [][ Did("edit") =>
            /\ \E k \in 1..Len(notes) :
                /\ notes[k].id = activeNoteId
                /\ notes' = [notes EXCEPT ![k].content = typed']
            /\ activeNoteId' = activeNoteId
            /\ localStorage' = localStorage
            /\ wrote' = FALSE ]_vars

\* The sequence ns without its k-th element.
Without(ns, k) ==
    [i \in 1..(Len(ns) - 1) |-> ns[IF i < k THEN i ELSE i + 1]]

\* C19: reorder(from, to) puts the Note of position from at position to and
\* keeps the other Notes in their order; no Note's field changes, the Active
\* Selection and the pending timer are untouched, and the new order is
\* written to the notes slot in the same step.
C19_ReorderMovesOnePosition ==
    [][ \A from, to \in 1..Len(notes) :
          handleDragEnd(from, to) =>
            /\ Len(notes') = Len(notes)
            /\ notes'[to] = notes[from]
            /\ Without(notes', to) = Without(notes, from)
            /\ activeNoteId' = activeNoteId
            /\ localStorage'[LAST_ACTIVE_KEY] = localStorage[LAST_ACTIVE_KEY]
            /\ saveTimeoutRef' = saveTimeoutRef
            /\ wrote'
            /\ localStorage'[STORAGE_KEY] = <<stringify(notes')>> ]_vars

\* The seed note was dragged from the first to the third tab.
C19_Witness ==
    /\ ev = "reorder"
    /\ events = 3
    /\ Len(notes) = 3
    /\ notes[3].id = SeedId
    /\ HasPersistedNotes
    /\ PersistedNotes[3].id = SeedId

C21_ClosedNoteNeverReappears ==
    [][ (Did("timer") \/ Did("rename")) =>
            /\ Len(notes') = Len(notes)
            /\ Ids(notes') \subseteq Ids(notes)
            /\ IF wrote'
               THEN /\ HasPersistedNotes'
                    /\ Len(PersistedNotes') = Len(notes)
                    /\ Ids(PersistedNotes') \subseteq Ids(notes)
               ELSE localStorage' = localStorage ]_vars

\* The seed note was edited and then closed with its write pending; the write
\* has fired and written, no Note of the store received it, and the seed note
\* is neither in the store nor in the persisted collection.
C21_Witness ==
    /\ ev = "timer"
    /\ wrote
    /\ ~some(notes, SeedId)
    /\ \A k \in 1..Len(notes) : notes[k].lastModified < now
    /\ HasPersistedNotes
    /\ ~some(PersistedNotes, SeedId)

\* C22: a pending debounced write is never stale: while a write is pending
\* for a Note that is still in the store, the content it captured is that
\* Note's current in-memory content.
C22_PendingWriteIsCurrent ==
    \A t \in 1..Len(saveTimeoutRef) :
        \A k \in 1..Len(notes) :
            notes[k].id = saveTimeoutRef[t].id =>
                notes[k].content = saveTimeoutRef[t].content
====
